---- MODULE Spec2Model ----
(***************************************************************************)
(* The GenSyn Playground page (src/unnamed/part_000, the Home component):  *)
(* its React state, the user's controls and the timer-chained job          *)
(* pipeline.  Every handler runs to completion (one action each); a timer  *)
(* callback or a continuation of the async training loop carries the       *)
(* values its closure captured when the handler that created it ran.       *)
(*                                                                         *)
(* JavaScript numbers that are not integers by construction (rewards,      *)
(* speeds, earnings, progress) are IEEE-754 doubles: a double is           *)
(* [m, e] with value m * 2^e, m a 53-bit mantissa held as little-endian    *)
(* limbs of LimbBits bits, and the arithmetic rounds to nearest, ties to   *)
(* even.  Not modelled: the wall-clock time field of a log entry, the      *)
(* sounds, the DOM scroll position and the lengths of the timer delays     *)
(* (a pending timer may fire at any later moment).                         *)
(***************************************************************************)
EXTENDS Integers, Sequences, FiniteSets, TLC

(***************************** bounds ***************************************)
\* pause / resume / share clicks explored after the start
MaxClicks == 2
\* Math.random() is drawn from { r / RandomRes : r \in 0..RandomRes-1 }
RandomRes == 4
\* the unit harness runs processJob with currentJob drawn from 0..MaxIndex
MaxIndex == 3

(***************************** doubles **************************************)
MantBits == 53
LimbBits == 13
LitLimbs == 5

RECURSIVE Pow2(_)
Pow2(k) == IF k = 0 THEN 1 ELSE 2 * Pow2(k - 1)

Base == Pow2(LimbBits)

LimbAt(x, i) == IF i >= 1 /\ i <= Len(x) THEN x[i] ELSE 0

RECURSIVE Trim(_)
Trim(x) == IF x # <<>> /\ x[Len(x)] = 0 THEN Trim(SubSeq(x, 1, Len(x) - 1)) ELSE x

RECURSIVE Carry(_, _, _)
Carry(col, i, c) ==
  IF i > Len(col) THEN (IF c = 0 THEN <<>> ELSE <<c % Base>> \o Carry(col, i, c \div Base))
  ELSE <<(col[i] + c) % Base>> \o Carry(col, i + 1, (col[i] + c) \div Base)

Tuple(f, n) == SubSeq(f, 1, n)

\* x + y on limb sequences
BAdd(x, y) ==
  LET n == IF Len(x) > Len(y) THEN Len(x) ELSE Len(y)
  IN  Trim(Carry(Tuple([i \in 1..n |-> LimbAt(x, i) + LimbAt(y, i)], n), 1, 0))

RECURSIVE ColSum(_, _, _, _)
ColSum(x, y, k, i) ==
  IF i > Len(x) THEN 0 ELSE x[i] * LimbAt(y, k - i + 1) + ColSum(x, y, k, i + 1)

\* x * y on limb sequences
BMul(x, y) ==
  LET n == Len(x) + Len(y)
  IN  Trim(Carry(Tuple([k \in 1..n |-> ColSum(x, y, k, 1)], n), 1, 0))

RECURSIVE BitLen(_)
BitLen(v) == IF v = 0 THEN 0 ELSE 1 + BitLen(v \div 2)

NumBits(x) == IF x = <<>> THEN 0 ELSE LimbBits * (Len(x) - 1) + BitLen(x[Len(x)])

\* x * 2^k
ShiftLeft(x, k) ==
  LET q == k \div LimbBits
      r == k % LimbBits
      n == Len(x) + q + 1
  IN  Trim(Tuple([i \in 1..n |->
             IF i <= q THEN 0
             ELSE ((LimbAt(x, i - q) * Pow2(r)) % Base)
                  + (LimbAt(x, i - q - 1) \div Pow2(LimbBits - r))], n))

\* floor(x / 2^k)
ShiftRight(x, k) ==
  LET q == k \div LimbBits
      r == k % LimbBits
      n == Len(x)
  IN  Trim(Tuple([i \in 1..n |->
             (LimbAt(x, i + q) \div Pow2(r))
             + ((LimbAt(x, i + q + 1) % Pow2(r)) * Pow2(LimbBits - r))], n))

\* bit k (0 the least significant) of x
BitAt(x, k) == (LimbAt(x, k \div LimbBits + 1) \div Pow2(k % LimbBits)) % 2

\* some bit of x below bit k is set
LowBits(x, k) ==
  \/ \E i \in 1..Len(x) : i <= k \div LimbBits /\ x[i] # 0
  \/ LimbAt(x, k \div LimbBits + 1) % Pow2(k % LimbBits) # 0

RECURSIVE DivFrom(_, _, _, _)
DivFrom(x, d, i, r) ==
  IF i = 0 THEN [q |-> <<>>, r |-> r]
  ELSE LET r2 == r * Base + x[i]
           rest == DivFrom(x, d, i - 1, r2 % d)
       IN  [q |-> Append(rest.q, r2 \div d), r |-> rest.r]

\* quotient and remainder of x by a small d
BDivSmall(x, d) == LET res == DivFrom(x, d, Len(x), 0) IN [q |-> Trim(res.q), r |-> res.r]

Zero == [m |-> <<>>, e |-> 0]

\* the double nearest to (x + fraction) * 2^e, ties to even; sticky: the fraction is not 0
Round(x, sticky, e) ==
  IF x = <<>> THEN Zero
  ELSE IF NumBits(x) <= MantBits
       THEN [m |-> ShiftLeft(x, MantBits - NumBits(x)), e |-> e - (MantBits - NumBits(x))]
  ELSE LET d == NumBits(x) - MantBits
           kept == ShiftRight(x, d)
           up == BitAt(x, d - 1) = 1 /\ (sticky \/ LowBits(x, d - 1) \/ BitAt(kept, 0) = 1)
           k2 == IF up THEN BAdd(kept, <<1>>) ELSE kept
       IN  IF NumBits(k2) > MantBits THEN [m |-> ShiftRight(k2, 1), e |-> e + d + 1]
           ELSE [m |-> k2, e |-> e + d]

\* the double a decimal literal n/d denotes, and the double quotient n / d of two
\* integers (both are the correctly rounded n/d)
Lit(n, d) ==
  LET res == BDivSmall(ShiftLeft(<<n>>, LimbBits * LitLimbs), d)
  IN  Round(res.q, res.r # 0, -(LimbBits * LitLimbs))

\* a * b, a + b on doubles
DMul(a, b) == Round(BMul(a.m, b.m), FALSE, a.e + b.e)

DAdd(a, b) ==
  IF a.m = <<>> THEN b
  ELSE IF b.m = <<>> THEN a
  ELSE LET e == IF a.e < b.e THEN a.e ELSE b.e
       IN  Round(BAdd(ShiftLeft(a.m, a.e - e), ShiftLeft(b.m, b.e - e)), FALSE, e)

RECURSIVE ValOf(_)
ValOf(x) == IF x = <<>> THEN 0 ELSE x[1] + Base * ValOf(Tail(x))

\* Number.prototype.toFixed: the integer nearest to a * scale (scale = 10^digits),
\* the larger one on a tie
ToFixed(a, scale) ==
  IF a.m = <<>> THEN 0
  ELSE LET p == BMul(a.m, <<scale>>)
       IN  IF a.e >= 0 THEN ValOf(ShiftLeft(p, a.e))
           ELSE ValOf(ShiftRight(BAdd(p, ShiftLeft(<<1>>, (-a.e) - 1)), -a.e))

(***************************** catalogs *************************************)
gpus ==
  << [name |-> "RTX 4090",   power |-> 450, speed |-> Lit(9, 10)],
     [name |-> "H100",       power |-> 700, speed |-> Lit(12, 10)],
     [name |-> "A100",       power |-> 400, speed |-> Lit(8, 10)],
     [name |-> "RTX 3090",   power |-> 350, speed |-> Lit(7, 10)],
     [name |-> "M2 MacBook", power |-> 30,  speed |-> Lit(3, 10)] >>

jobs ==
  << [id |-> 1, name |-> "Train ResNet-18 on CIFAR-10", duration |-> 5000, reward |-> Lit(12, 10)],
     [id |-> 2, name |-> "Fine-tune Llama-7B",          duration |-> 8000, reward |-> Lit(25, 10)],
     [id |-> 3, name |-> "Stable Diffusion Proof",      duration |-> 3000, reward |-> Lit(8, 10)],
     [id |-> 4, name |-> "GPT-2 Scratch Train",         duration |-> 6000, reward |-> Lit(18, 10)] >>

Range(s) == {s[i] : i \in DOMAIN s}

\* Array.prototype.slice(from, to) of integral arguments >= 0
Slice(arr, from, to) == SubSeq(arr, from + 1, IF to < Len(arr) THEN to ELSE Len(arr))

\* the number of optimisation steps of a job: trainModel(10)
Steps == 10

\* the loss of one model.train call, in thousandths (its toFixed(3)): the value is
\* the library's and carries no meaning in the page
LossValues == {693}

(***************************** state ****************************************)
VARIABLES
  selectedGpu,   \* useState(gpus[0])
  logs,          \* useState([])
  isRunning,     \* useState(false)
  earnings,      \* useState(0)
  progress,      \* useState(0)
  jobQueue,      \* useState(jobs.slice(0, 2))
  currentJob,    \* useState(0)
  showConfetti,  \* useState(false)
  isPaused,      \* useState(false)
  model,         \* useState(null): "null" or "ready"
  timers,        \* the pending callbacks: timers and awaited promises, oldest first
  canShare,      \* whether the browser has navigator.share
  settled,       \* history: the jobs whose reward was credited
  emitted,       \* history: the number of addLog calls
  runs,          \* history: the number of startSimulation calls
  clicks         \* history: the pause / resume / share clicks (bounded by MaxClicks)

vars == << selectedGpu, logs, isRunning, earnings, progress, jobQueue, currentJob,
           showConfetti, isPaused, model, timers, canShare, settled, emitted, runs, clicks >>

NoJob == [id |-> 0, name |-> "", duration |-> 0, reward |-> Zero]

\* what the functions of one render see: the state values of that render
Closure ==
  [selectedGpu |-> selectedGpu, isPaused |-> isPaused, model |-> model,
   currentJob |-> currentJob, jobQueue |-> jobQueue]

Task(kind, i, job, env) == [kind |-> kind, i |-> i, job |-> job, env |-> env]

Remove(s, k) == SubSeq(s, 1, k - 1) \o SubSeq(s, k + 1, Len(s))

Upper(type) ==
  CASE type = "info" -> "INFO"
    [] type = "success" -> "SUCCESS"
    [] type = "bid" -> "BID"
    [] type = "train" -> "TRAIN"

\* a message: its fixed text with the numbers and strings interpolated into it
Msg(text, nums, strs) == [text |-> text, nums |-> nums, strs |-> strs]

\* addLog with the new entry put first
AddLog_Prepend(prev, msg, type) ==
  << [tag |-> Upper(type), text |-> msg.text, nums |-> msg.nums,
      strs |-> msg.strs, type |-> type] >> \o prev

\* setLogs(prev => [...prev, { time, msg: `[${type.toUpperCase()}] ${msg}`, type }])
AddLog(prev, msg, type) ==
  Append(prev, [tag |-> Upper(type), text |-> msg.text, nums |-> msg.nums,
                strs |-> msg.strs, type |-> type])

Init ==
  /\ selectedGpu = gpus[1]
  /\ logs = <<>>
  /\ isRunning = FALSE
  /\ earnings = Zero
  /\ progress = Zero
  /\ jobQueue = Slice(jobs, 0, 2)
  /\ currentJob = 0
  /\ showConfetti = FALSE
  /\ isPaused = FALSE
  /\ model = "null"
  /\ timers = <<>>
  /\ canShare \in BOOLEAN
  /\ settled = <<>>
  /\ emitted = 0
  /\ runs = 0
  /\ clicks = 0

(***************************** the pipeline *********************************)
\* The result of a piece of handler code: the log it leaves, the number of addLog
\* calls it made and the callbacks it scheduled.
Result(newLogs, calls, scheduled) == [logs |-> newLogs, calls |-> calls, timers |-> scheduled]

\* processJob, as defined by the render whose values are env
ProcessJob(env, prev) ==
  IF env.currentJob >= Len(env.jobQueue)
  THEN Result(AddLog(prev, Msg("Queue empty. Fetching more jobs...", <<>>, <<>>), "info"), 1,
              << Task("refill", 0, NoJob, env) >>)
  ELSE LET job == env.jobQueue[env.currentJob + 1]
       IN  Result(AddLog(prev, Msg("Processing job %d: %s", << env.currentJob + 1 >>,
                                   << job.name >>), "bid"), 1,
                  << Task("bidding", 0, job, env) >>)

\* the rest of the bidding callback without addLog('Generating proof...')
AfterTraining_NoProofLog(env, job, prev) ==
  Result(prev, 0, << Task("proving", 0, job, env) >>)

\* the rest of the bidding callback once trainModel has returned
AfterTraining(env, job, prev) ==
  Result(AddLog(prev, Msg("Generating proof...", <<>>, <<>>), "info"), 1,
         << Task("proving", 0, job, env) >>)

\* trainModel's loop at the test of iteration i, up to its next await (or its return)
TrainLoop(env, steps, i, job, prev) ==
  IF i < steps
  THEN IF env.isPaused
       THEN Result(prev, 0, << Task("poll", i, job, env) >>)
       ELSE Result(prev, 0, << Task("train", i, job, env) >>)
  ELSE AfterTraining(env, job, prev)

\* trainModel(steps) from its call to its first await (or its return)
TrainModel(env, steps, job, prev) ==
  IF env.model = "null" THEN AfterTraining(env, job, prev)
  ELSE TrainLoop(env, steps, 0, job, prev)

\* const acc = 50 + (steps - i) * 5
Acc(steps, i) == 50 + (steps - i) * 5

\* setProgress(i * 100): the division by steps left out
StepProgress_NoDivision(steps, i) == DMul(Lit(i, 1), Lit(100, 1))

\* setProgress((i / steps) * 100)
StepProgress(steps, i) == DMul(Lit(i, steps), Lit(100, 1))

\* the reward without the device's speed multiplier
Reward_NoSpeed(job, env) == job.reward

\* const reward = job.reward * selectedGpu.speed
Reward(job, env) == DMul(job.reward, env.selectedGpu.speed)

(***************************** the user's controls **************************)
\* the device select without disabled={isRunning}
SelectGpu_WhileRunning(g) ==
  /\ selectedGpu' = g
  /\ UNCHANGED << logs, isRunning, earnings, progress, jobQueue, currentJob, showConfetti,
                  isPaused, model, timers, canShare, settled, emitted, runs, clicks >>

\* the device select: onChange, disabled while running
SelectGpu(g) ==
  /\ ~isRunning
  /\ selectedGpu' = g
  /\ UNCHANGED << logs, isRunning, earnings, progress, jobQueue, currentJob, showConfetti,
                  isPaused, model, timers, canShare, settled, emitted, runs, clicks >>

\* the mount effect: initModel builds the model and stores it
InitModel ==
  /\ model = "null"
  /\ model' = "ready"
  /\ UNCHANGED << selectedGpu, logs, isRunning, earnings, progress, jobQueue, currentJob,
                  showConfetti, isPaused, timers, canShare, settled, emitted, runs, clicks >>

\* startSimulation without setIsRunning(true)
StartSimulation_NotRunning ==
  /\ ~isRunning
  /\ LET started == AddLog(<<>>, Msg("Node started on %s (%dW)", << selectedGpu.power >>,
                                     << selectedGpu.name >>), "info")
         res == ProcessJob(Closure, started)
     IN  /\ earnings' = Zero
         /\ logs' = res.logs
         /\ currentJob' = 0
         /\ progress' = Zero
         /\ timers' = timers \o res.timers
         /\ emitted' = emitted + 1 + res.calls
  /\ runs' = runs + 1
  /\ UNCHANGED << selectedGpu, isRunning, jobQueue, showConfetti, isPaused, model, canShare,
                  settled, clicks >>

\* startSimulation calling processJob twice
StartSimulation_Twice ==
  /\ ~isRunning
  /\ LET started == AddLog(<<>>, Msg("Node started on %s (%dW)", << selectedGpu.power >>,
                                     << selectedGpu.name >>), "info")
         res == ProcessJob(Closure, started)
         res2 == ProcessJob(Closure, res.logs)
     IN  /\ isRunning' = TRUE
         /\ earnings' = Zero
         /\ logs' = res2.logs
         /\ currentJob' = 0
         /\ progress' = Zero
         /\ timers' = (timers \o res.timers) \o res2.timers
         /\ emitted' = emitted + 1 + res.calls + res2.calls
  /\ runs' = runs + 1
  /\ UNCHANGED << selectedGpu, jobQueue, showConfetti, isPaused, model, canShare, settled,
                  clicks >>

\* the Start Swarm button, rendered while not running
StartSimulation ==
  /\ ~isRunning
  /\ LET started == AddLog(<<>>, Msg("Node started on %s (%dW)", << selectedGpu.power >>,
                                     << selectedGpu.name >>), "info")
         res == ProcessJob(Closure, started)
     IN  /\ isRunning' = TRUE
         /\ earnings' = Zero
         /\ logs' = res.logs
         /\ currentJob' = 0
         /\ progress' = Zero
         /\ timers' = timers \o res.timers
         /\ emitted' = emitted + 1 + res.calls
  /\ runs' = runs + 1
  /\ UNCHANGED << selectedGpu, jobQueue, showConfetti, isPaused, model, canShare, settled,
                  clicks >>

\* togglePause logging the state it leaves instead of the one it enters
TogglePause_OldState ==
  /\ isRunning
  /\ clicks < MaxClicks
  /\ isPaused' = ~isPaused
  /\ logs' = AddLog(logs, Msg(IF isPaused THEN "Node paused" ELSE "Node resumed", <<>>, <<>>),
                    "info")
  /\ emitted' = emitted + 1
  /\ clicks' = clicks + 1
  /\ UNCHANGED << selectedGpu, isRunning, earnings, progress, jobQueue, currentJob,
                  showConfetti, model, timers, canShare, settled, runs >>

\* the Pause / Resume button, rendered while running
TogglePause ==
  /\ isRunning
  /\ clicks < MaxClicks
  /\ isPaused' = ~isPaused
  /\ logs' = AddLog(logs, Msg(IF isPaused THEN "Node resumed" ELSE "Node paused", <<>>, <<>>),
                    "info")
  /\ emitted' = emitted + 1
  /\ clicks' = clicks + 1
  /\ UNCHANGED << selectedGpu, isRunning, earnings, progress, jobQueue, currentJob,
                  showConfetti, model, timers, canShare, settled, runs >>

\* the Share Earnings button, rendered while running
ShareEarnings ==
  /\ isRunning
  /\ clicks < MaxClicks
  /\ IF canShare
     THEN UNCHANGED << logs, emitted >>
     ELSE /\ logs' = AddLog(logs, Msg("Share text copied!", <<>>, <<>>), "info")
          /\ emitted' = emitted + 1
  /\ clicks' = clicks + 1
  /\ UNCHANGED << selectedGpu, isRunning, earnings, progress, jobQueue, currentJob,
                  showConfetti, isPaused, model, timers, canShare, settled, runs >>

(***************************** the callbacks ********************************)
\* the 1000 ms timer of processJob fires
BiddingFire(k) ==
  /\ timers[k].kind = "bidding"
  /\ LET t == timers[k]
         res == TrainModel(t.env, Steps, t.job,
                           AddLog(logs, Msg("Training model...", <<>>, <<>>), "info"))
     IN  /\ logs' = res.logs
         /\ emitted' = emitted + 1 + res.calls
         /\ timers' = Remove(timers, k) \o res.timers
  /\ UNCHANGED << selectedGpu, isRunning, earnings, progress, jobQueue, currentJob,
                  showConfetti, isPaused, model, canShare, settled, runs, clicks >>

\* await model.train(...) resolves with a loss: the rest of the iteration
TrainResolve(k, loss) ==
  /\ timers[k].kind = "train"
  /\ LET t == timers[k]
     IN  /\ logs' = AddLog(logs, Msg("Step %d/%d -> Loss: %s, Acc: %s%%",
                                     << t.i + 1, Steps, loss, Acc(Steps, t.i) >>, <<>>), "train")
         /\ progress' = StepProgress(Steps, t.i)
         /\ timers' = Remove(timers, k) \o << Task("stepWait", t.i, t.job, t.env) >>
  /\ emitted' = emitted + 1
  /\ UNCHANGED << selectedGpu, isRunning, earnings, jobQueue, currentJob, showConfetti,
                  isPaused, model, canShare, settled, runs, clicks >>

\* model.train(...) throws or rejects: trainModel and the bidding callback end there
TrainReject(k) ==
  /\ timers[k].kind = "train"
  /\ timers' = Remove(timers, k)
  /\ UNCHANGED << selectedGpu, logs, isRunning, earnings, progress, jobQueue, currentJob,
                  showConfetti, isPaused, model, canShare, settled, emitted, runs, clicks >>

\* the wait that ends an iteration (300 / speed ms), or the 100 ms wait of a paused
\* iteration (i--, continue), is over: i++ and the loop test
LoopWake(k) ==
  /\ timers[k].kind \in {"stepWait", "poll"}
  /\ LET t == timers[k]
         i == IF t.kind = "poll" THEN (t.i - 1) + 1 ELSE t.i + 1
         res == TrainLoop(t.env, Steps, i, t.job, logs)
     IN  /\ logs' = res.logs
         /\ emitted' = emitted + res.calls
         /\ timers' = Remove(timers, k) \o res.timers
  /\ UNCHANGED << selectedGpu, isRunning, earnings, progress, jobQueue, currentJob,
                  showConfetti, isPaused, model, canShare, settled, runs, clicks >>

\* the settle callback without setEarnings
ProvingFire_NoCredit(k) ==
  /\ timers[k].kind = "proving"
  /\ LET t == timers[k]
         reward == Reward(t.job, t.env)
     IN  /\ logs' = AddLog(logs, Msg("Proof accepted! +%s $SY earned", << ToFixed(reward, 100) >>,
                                     <<>>), "success")
         /\ showConfetti' = TRUE
         /\ timers' = Remove(timers, k) \o << Task("confetti", 0, NoJob, t.env) >>
         /\ currentJob' = currentJob + 1
         /\ progress' = Zero
         /\ settled' = Append(settled, t.job)
  /\ emitted' = emitted + 1
  /\ UNCHANGED << selectedGpu, isRunning, earnings, jobQueue, isPaused, model, canShare, runs,
                  clicks >>

\* the settle callback with setCurrentJob(prev => prev + 2)
ProvingFire_SkipJob(k) ==
  /\ timers[k].kind = "proving"
  /\ LET t == timers[k]
         reward == Reward(t.job, t.env)
     IN  /\ earnings' = DAdd(earnings, reward)
         /\ logs' = AddLog(logs, Msg("Proof accepted! +%s $SY earned", << ToFixed(reward, 100) >>,
                                     <<>>), "success")
         /\ showConfetti' = TRUE
         /\ timers' = Remove(timers, k) \o << Task("confetti", 0, NoJob, t.env) >>
         /\ currentJob' = currentJob + 2
         /\ progress' = Zero
         /\ settled' = Append(settled, t.job)
  /\ emitted' = emitted + 1
  /\ UNCHANGED << selectedGpu, isRunning, jobQueue, isPaused, model, canShare, runs, clicks >>

\* the settle callback ending the run: setIsRunning(false)
ProvingFire_Stops(k) ==
  /\ timers[k].kind = "proving"
  /\ LET t == timers[k]
         reward == Reward(t.job, t.env)
     IN  /\ earnings' = DAdd(earnings, reward)
         /\ logs' = AddLog(logs, Msg("Proof accepted! +%s $SY earned", << ToFixed(reward, 100) >>,
                                     <<>>), "success")
         /\ showConfetti' = TRUE
         /\ timers' = Remove(timers, k) \o << Task("confetti", 0, NoJob, t.env) >>
         /\ currentJob' = currentJob + 1
         /\ progress' = Zero
         /\ settled' = Append(settled, t.job)
  /\ isRunning' = FALSE
  /\ emitted' = emitted + 1
  /\ UNCHANGED << selectedGpu, jobQueue, isPaused, model, canShare, runs, clicks >>

\* the settle callback also dropping the settled job: setJobQueue(prev => prev.slice(1))
ProvingFire_Dequeues(k) ==
  /\ timers[k].kind = "proving"
  /\ LET t == timers[k]
         reward == Reward(t.job, t.env)
     IN  /\ earnings' = DAdd(earnings, reward)
         /\ logs' = AddLog(logs, Msg("Proof accepted! +%s $SY earned", << ToFixed(reward, 100) >>,
                                     <<>>), "success")
         /\ showConfetti' = TRUE
         /\ timers' = Remove(timers, k) \o << Task("confetti", 0, NoJob, t.env) >>
         /\ currentJob' = currentJob + 1
         /\ progress' = Zero
         /\ settled' = Append(settled, t.job)
  /\ jobQueue' = Tail(jobQueue)
  /\ emitted' = emitted + 1
  /\ UNCHANGED << selectedGpu, isRunning, isPaused, model, canShare, runs, clicks >>

\* the 1500 ms timer after "Generating proof..." fires: the job settles
ProvingFire(k) ==
  /\ timers[k].kind = "proving"
  /\ LET t == timers[k]
         reward == Reward(t.job, t.env)
     IN  /\ earnings' = DAdd(earnings, reward)
         /\ logs' = AddLog(logs, Msg("Proof accepted! +%s $SY earned", << ToFixed(reward, 100) >>,
                                     <<>>), "success")
         /\ showConfetti' = TRUE
         /\ timers' = Remove(timers, k) \o << Task("confetti", 0, NoJob, t.env) >>
         /\ currentJob' = currentJob + 1
         /\ progress' = Zero
         /\ settled' = Append(settled, t.job)
  /\ emitted' = emitted + 1
  /\ UNCHANGED << selectedGpu, isRunning, jobQueue, isPaused, model, canShare, runs, clicks >>

\* the 3000 ms timer set when a job settles fires
ConfettiFire(k) ==
  /\ timers[k].kind = "confetti"
  /\ showConfetti' = FALSE
  /\ timers' = Remove(timers, k)
  /\ UNCHANGED << selectedGpu, logs, isRunning, earnings, progress, jobQueue, currentJob,
                  isPaused, model, canShare, settled, emitted, runs, clicks >>

\* Math.random() * jobs.length as slice reads it (truncated), for the draw r / RandomRes
RandomIndex(r) == (r * Len(jobs)) \div RandomRes

\* the 2000 ms refill timer fires:
\* setJobQueue(prev => [...prev, ...jobs.slice(random * 4, random * 4 + 1)])
RefillFire(k, r1, r2) ==
  /\ timers[k].kind = "refill"
  /\ jobQueue' = jobQueue \o Slice(jobs, RandomIndex(r1), RandomIndex(r2) + 1)
  /\ timers' = Remove(timers, k)
  /\ UNCHANGED << selectedGpu, logs, isRunning, earnings, progress, currentJob, showConfetti,
                  isPaused, model, canShare, settled, emitted, runs, clicks >>

(***************************** specifications *******************************)
Next ==
  \/ \E g \in Range(gpus) : SelectGpu(g)
  \/ InitModel
  \/ StartSimulation
  \/ TogglePause
  \/ ShareEarnings
  \/ \E k \in DOMAIN timers : BiddingFire(k)
  \/ \E k \in DOMAIN timers : \E loss \in LossValues : TrainResolve(k, loss)
  \/ \E k \in DOMAIN timers : TrainReject(k)
  \/ \E k \in DOMAIN timers : LoopWake(k)
  \/ \E k \in DOMAIN timers : ProvingFire(k)
  \/ \E k \in DOMAIN timers : ConfettiFire(k)

\* the page: it is loaded, and the user and the timers act
Spec == Init /\ [][Next]_vars

\* processJob as a unit: the page as loaded, but with the job index that the render
\* running processJob sees drawn from 0..MaxIndex
InitPipeline ==
  /\ selectedGpu = gpus[1]
  /\ logs = <<>>
  /\ isRunning = FALSE
  /\ earnings = Zero
  /\ progress = Zero
  /\ jobQueue = Slice(jobs, 0, 2)
  /\ currentJob \in 0..MaxIndex
  /\ showConfetti = FALSE
  /\ isPaused = FALSE
  /\ model = "null"
  /\ timers = <<>>
  /\ canShare \in BOOLEAN
  /\ settled = <<>>
  /\ emitted = 0
  /\ runs = 0
  /\ clicks = 0

NextPipeline ==
  \/ Next
  \/ \E k \in DOMAIN timers : \E r1, r2 \in 0..(RandomRes - 1) : RefillFire(k, r1, r2)

SpecPipeline == InitPipeline /\ [][NextPipeline]_vars

(***************************** properties ***********************************)
RECURSIVE LimbsLeq(_, _, _)
LimbsLeq(x, y, i) ==
  IF i = 0 THEN TRUE
  ELSE IF x[i] # y[i] THEN x[i] < y[i]
  ELSE LimbsLeq(x, y, i - 1)

\* a <= b on doubles that are zero or positive
DLeq(a, b) ==
  IF a.m = <<>> THEN TRUE
  ELSE IF b.m = <<>> THEN FALSE
  ELSE IF a.e # b.e THEN a.e < b.e
  ELSE LimbsLeq(a.m, b.m, Len(a.m))

\* a callback of this kind is pending
HasKind(s, kind) == \E k \in DOMAIN s : s[k].kind = kind

\* the steps, read off the history variables and the pending callbacks
StartStep == runs' = runs + 1
SettleStep == Len(settled') = Len(settled) + 1
BiddingStep == HasKind(timers, "bidding") /\ ~HasKind(timers', "bidding")
RefillStep == HasKind(timers, "refill") /\ ~HasKind(timers', "refill")

IsPrefix(a, b) == Len(a) <= Len(b) /\ SubSeq(b, 1, Len(a)) = a

\* the "Step i/n" entries of a log
StepLogs(l) == {k \in DOMAIN l : l[k].type = "train"}

\* the callbacks that are a stage of the pipeline in flight
StageKinds == {"bidding", "train", "stepWait", "poll", "proving", "refill"}
StagesInFlight == {k \in DOMAIN timers : timers[k].kind \in StageKinds}

\* the rewards of the jobs js on device gpu, added up in order from 0
RECURSIVE SumRewards(_, _)
SumRewards(js, gpu) ==
  IF js = <<>> THEN Zero
  ELSE DAdd(SumRewards(SubSeq(js, 1, Len(js) - 1), gpu), DMul(js[Len(js)].reward, gpu.speed))

\* C1: when a job J settles on the selected device D, the reward added to the
\* earnings is the double product J.reward * D.speed, J a catalog job; and that
\* product is 0.24 for "Stable Diffusion Proof" on "M2 MacBook" and 3.0 for
\* "Fine-tune Llama-7B" on "H100".
C1_RewardIsProduct ==
  /\ Reward(jobs[3], [selectedGpu |-> gpus[5]]) = Lit(24, 100)
  /\ Reward(jobs[2], [selectedGpu |-> gpus[2]]) = Lit(3, 1)
  /\ [][SettleStep =>
          LET J == settled'[Len(settled')]
          IN  /\ J \in Range(jobs)
              /\ selectedGpu \in Range(gpus)
              /\ earnings' = DAdd(earnings, DMul(J.reward, selectedGpu.speed))]_vars

\* a job has settled on the M2 MacBook: 1.2 * 0.3 = 0.36 was credited
C1_Witness ==
  /\ Len(settled) = 1
  /\ selectedGpu.name = "M2 MacBook"
  /\ earnings = Lit(36, 100)

\* C2 (as claimed): from a state in which the paused flag is set, no step adds a
\* training-step entry to the log or raises progress.
C2_PausedNoSteps ==
  [][isPaused => (StepLogs(logs') = StepLogs(logs) /\ DLeq(progress', progress))]_vars

\* the node was paused before the first training step, and all the steps of the job
\* ran and the job settled while the flag stayed set
C2_Witness ==
  /\ isPaused
  /\ Len(settled) = 1
  /\ Cardinality(StepLogs(logs)) = Steps
  /\ \E k \in DOMAIN logs : logs[k].text = "Node paused" /\ \A j \in StepLogs(logs) : k < j

\* C3 (as claimed): when a job settles, the pipeline goes on by itself: the next
\* queued job is in Bidding if the index is below the queue length, and the
\* pipeline is Refilling otherwise.
C3_ReinvokesAfterSettle ==
  [][SettleStep =>
       IF currentJob' < Len(jobQueue') THEN HasKind(timers', "bidding")
       ELSE HasKind(timers', "refill")]_vars

\* a job has settled, another one is queued, and no stage is in flight
C3_Witness ==
  /\ Len(settled) = 1
  /\ currentJob < Len(jobQueue)
  /\ StagesInFlight = {}

C5_EarningsIsSum ==
  /\ earnings = SumRewards(settled, selectedGpu)
  /\ [][/\ earnings' = SumRewards(settled', selectedGpu')
        /\ ~StartStep => DLeq(earnings, earnings')
        /\ earnings' # earnings => SettleStep]_vars

\* a reward has been credited
C5_Witness == Len(settled) = 1 /\ earnings # Zero /\ earnings = Lit(108, 100)

\* C6: progress is within [0, 100] in every state, and it is 0 when the Training
\* stage of a job begins (when the bidding timer fires).
C6_ProgressRange ==
  /\ DLeq(Zero, progress) /\ DLeq(progress, Lit(100, 1))
  /\ [][/\ DLeq(Zero, progress') /\ DLeq(progress', Lit(100, 1))
        /\ BiddingStep => (progress = Zero /\ progress' = Zero)]_vars

\* the last training step has set progress
C6_Witness == progress = Lit(90, 1) /\ HasKind(timers, "stepWait")

\* C7: the job index is 0 after a start, goes up by exactly 1 when a job settles,
\* changes in no other step, and is the number of jobs settled.
C7_IndexCountsSettled ==
  /\ currentJob = Len(settled)
  /\ [][/\ StartStep => currentJob' = 0
        /\ SettleStep => currentJob' = currentJob + 1
        /\ (~StartStep /\ ~SettleStep) => currentJob' = currentJob
        /\ currentJob' = Len(settled')]_vars

\* a job has settled in a started run
C7_Witness == runs = 1 /\ Len(settled) = 1 /\ currentJob = 1

\* C8: every step leaves the log as it was, with new entries (if any) after it, and
\* the log is as long as the number of addLog calls made.
C8_LogAppendOnly ==
  /\ Len(logs) = emitted
  /\ [][IsPrefix(logs, logs') /\ Len(logs') = emitted']_vars

\* start, a pause click and timer firings have all written to the log
C8_Witness ==
  /\ Len(settled) = 1
  /\ \E k \in DOMAIN logs : logs[k].text = "Node paused" /\ k > 2 /\ k < Len(logs)

\* C9: at most one stage of the pipeline is in flight.
C9_StagesSerialized == Cardinality(StagesInFlight) <= 1

\* a stage is in flight after a pause click came between two timer firings
C9_Witness ==
  /\ HasKind(timers, "proving")
  /\ clicks = 1
  /\ Cardinality(StagesInFlight) = 1

\* C10: a start leaves running set, paused clear, earnings, progress and job index 0,
\* and in the log only the entries the start itself emitted.
C10_StartResets ==
  [][StartStep =>
       /\ isRunning' /\ ~isPaused'
       /\ earnings' = Zero /\ progress' = Zero /\ currentJob' = 0
       /\ Len(logs') = emitted' - emitted
       /\ logs'[1].text = "Node started on %s (%dW)"]_vars

\* the state right after a start
C10_Witness == runs = 1 /\ isRunning /\ Len(logs) = 2 /\ HasKind(timers, "bidding")

\* C11: the selected device changes only while not running, and then nothing else
\* of the page's state changes; while running, every pending callback of the
\* pipeline (step timing, reward) holds the device that is selected.
C11_DeviceFixedWhileRunning ==
  /\ \A k \in DOMAIN timers : timers[k].env.selectedGpu = selectedGpu
  /\ [][/\ isRunning => selectedGpu' = selectedGpu
        /\ \A k \in DOMAIN timers' : timers'[k].env.selectedGpu = selectedGpu'
        /\ selectedGpu' # selectedGpu =>
             /\ ~isRunning /\ ~isRunning'
             /\ UNCHANGED << logs, earnings, progress, jobQueue, currentJob, showConfetti,
                             isPaused, model, timers >>]_vars

\* a run started on a device picked before the start is about to settle on it
C11_Witness ==
  /\ isRunning
  /\ selectedGpu.name = "A100"
  /\ \E k \in DOMAIN timers : timers[k].kind = "proving" /\ timers[k].env.selectedGpu = selectedGpu

\* a training iteration completes: its "Step i/n" entry is logged
StepDone == Cardinality(StepLogs(logs')) = Cardinality(StepLogs(logs)) + 1

\* C12: after each completed step, progress is (completed steps / total steps) * 100:
\* 10 after the first of the 10 steps, 100 after the last.
C12_ProgressCountsCompleted ==
  [][StepDone => progress' = DMul(Lit(Cardinality(StepLogs(logs')), Steps), Lit(100, 1))]_vars

\* the first step has completed and progress reads 0
C12_Witness == Cardinality(StepLogs(logs)) = 1 /\ progress = Zero

\* C13: a job that has reached the proving delay or has settled has completed
\* exactly 10 training steps, whatever the state at start.
C13_TenStepsBeforeProof ==
  (HasKind(timers, "proving") \/ settled # <<>>) => Cardinality(StepLogs(logs)) = Steps

\* a job settled without any training step, the model not set when Start was clicked
C13_Witness == settled # <<>> /\ StepLogs(logs) = {}

\* C14: the accuracy logged by a step is greater than the accuracy logged by the
\* step before it.
C14_AccuracyIncreases ==
  \A j, k \in StepLogs(logs) :
    logs[k].nums[1] = logs[j].nums[1] + 1 => logs[k].nums[4] > logs[j].nums[4]

\* the second step logged a lower accuracy than the first
C14_Witness ==
  \E j, k \in StepLogs(logs) :
    /\ logs[j].nums[1] = 1 /\ logs[k].nums[1] = 2
    /\ logs[j].nums[4] = 100 /\ logs[k].nums[4] = 95

\* the place of a log entry in the order of the stages (0: not a stage entry)
StageRank(e) ==
  CASE e.text = "Processing job %d: %s" -> 1
    [] e.text = "Training model..." -> 2
    [] e.text = "Step %d/%d -> Loss: %s, Acc: %s%%" -> 3
    [] e.text = "Generating proof..." -> 4
    [] e.text = "Proof accepted! +%s $SY earned" -> 5
    [] OTHER -> 0

IsStageEntry(e) == StageRank(e) > 0

\* the entries the pipeline wrote, in the order of the log
StageLog == SelectSeq(logs, IsStageEntry)

\* entry b may directly follow entry a in the log of one job
Follows(a, b) ==
  \/ StageRank(a) = 1 /\ StageRank(b) = 2
  \/ StageRank(a) = 2 /\ StageRank(b) = 3 /\ b.nums[1] = 1
  \/ StageRank(a) = 3 /\ StageRank(b) = 3 /\ b.nums[1] = a.nums[1] + 1
  \/ StageRank(a) \in {2, 3} /\ StageRank(b) = 4
  \/ StageRank(a) = 4 /\ StageRank(b) = 5

\* C15: the stage entries of the log come in the order 'Processing job',
\* 'Training model...', the steps 1, 2, ... in turn, 'Generating proof...',
\* 'Proof accepted', none of them twice and none left out before a later one;
\* the reward and the index change exactly in the step that logs 'Proof accepted'.
C15_StageOrder ==
  /\ [](/\ StageLog # <<>> => StageRank(StageLog[1]) = 1
        /\ \A k \in 1..(Len(StageLog) - 1) : Follows(StageLog[k], StageLog[k + 1]))
  /\ [][LET accepted == /\ Len(logs') = Len(logs) + 1
                        /\ StageRank(logs'[Len(logs')]) = 5
        IN  /\ accepted <=> SettleStep
            /\ (~accepted /\ ~StartStep) => (earnings' = earnings /\ currentJob' = currentJob)]_vars

\* a job went through every stage, all ten steps logged between the stage entries
C15_Witness ==
  /\ Len(StageLog) = Steps + 4
  /\ StageRank(StageLog[Len(StageLog)]) = 5
  /\ settled # <<>>

\* the job of the run has entered bidding: its 'Processing job' entry is logged
EnteredBidding == \E k \in DOMAIN logs : StageRank(logs[k]) = 1

\* C16: a job that has entered bidding and has not settled has a stage in flight
\* (a timer or an awaited call that will carry it on), so that it cannot be left
\* unfinished with nothing pending.
C16_NoHang ==
  (EnteredBidding /\ settled = <<>>) => StagesInFlight # {}

\* the job is in training, unsettled, and no callback of the pipeline is pending
C16_Witness ==
  /\ EnteredBidding /\ settled = <<>> /\ StagesInFlight = {}
  /\ \E k \in DOMAIN logs : StageRank(logs[k]) = 2

\* C17 (its negation, which is what the page allows): when startSimulation runs no
\* stage callback is pending, so no timer or training loop of an earlier run can
\* fire after a start.
C17_NoTimerSurvivesStart ==
  [][StartStep => (StagesInFlight = {} /\ timers = <<>>)]_vars

\* the processJob calls so far, read off the entries it logs
ProcessJobCalls ==
  Cardinality({k \in DOMAIN logs :
                 logs[k].text \in {"Processing job %d: %s", "Queue empty. Fetching more jobs..."}})

\* C18: once running is true it stays true; startSimulation is called only while
\* not running, so at most once, and processJob is invoked at most once.
C18_StartsOnce ==
  /\ [](runs <= 1 /\ ProcessJobCalls <= 1 /\ (isRunning <=> runs = 1))
  /\ [][/\ isRunning => isRunning'
        /\ StartStep => ~isRunning]_vars

\* the job has settled and its confetti is gone: still running, one start
C18_Witness ==
  isRunning /\ runs = 1 /\ settled # <<>> /\ timers = <<>> /\ ProcessJobCalls = 1

\* C19: the job index stays within 0..queue length, the queue only ever grows at
\* its end (start leaves it alone), processJob reads the queue at an index below
\* its length, and the job a stage works on is an entry of the catalog.
C19_IndexInQueue ==
  /\ [](/\ currentJob \in 0..Len(jobQueue)
        /\ \A k \in StagesInFlight : timers[k].job \in Range(jobs))
  /\ [][/\ IsPrefix(jobQueue, jobQueue')
        /\ StartStep => /\ currentJob < Len(jobQueue)
                        /\ HasKind(timers', "bidding")]_vars

\* the first job of the queue has settled and the index points at the second
C19_Witness ==
  currentJob = 1 /\ settled = << jobs[1] >> /\ jobQueue = << jobs[1], jobs[2] >>

\* C20: paused implies running; paused is false when startSimulation runs and start
\* leaves it false; a step that changes paused happens while running and appends
\* exactly one entry, 'Node paused' if paused became true, 'Node resumed' if false.
C20_PauseToggle ==
  /\ [](isPaused => isRunning)
  /\ [][/\ StartStep => (~isPaused /\ ~isPaused')
        /\ isPaused' # isPaused =>
             /\ isRunning
             /\ logs' = Append(logs, [tag |-> "INFO",
                                      text |-> IF isPaused' THEN "Node paused" ELSE "Node resumed",
                                      nums |-> <<>>, strs |-> <<>>, type |-> "info"])]_vars

\* the node was paused and then resumed, each logged under its name
C20_Witness ==
  /\ ~isPaused
  /\ \E j, k \in DOMAIN logs :
       j < k /\ logs[j].text = "Node paused" /\ logs[k].text = "Node resumed"

====
